---- MODULE Spec2Model ----
(***************************************************************************)
(* Model of teller-providers/src/providers/flyio_provider.rs: the Fly.io   *)
(* secret provider, which shells out to the `fly` command line tool.       *)
(*                                                                         *)
(* Text is modelled at the byte level: a name, a value, a command line     *)
(* argument and the standard output of the command are sequences of bytes  *)
(* (0..255).  str::from_utf8 is a UTF-8 validator over those bytes and     *)
(* serde_json::from_str is a recursive-descent parser over them.           *)
(***************************************************************************)
EXTENDS Integers, Sequences, FiniteSets, TLC

VARIABLES store, calls, invocations, call, issued, proc, exec, result

vars == <<store, calls, invocations, call, issued, proc, exec, result>>

----------------------------------------------------------------------------
(* Bounds *)

MaxLen == 1        \* longest secret name / secret value passed by a caller
MaxCalls == 2      \* number of provider calls in one behaviour

----------------------------------------------------------------------------
(* Bytes *)

Code ==
  ("{" :> 123) @@ ("}" :> 125) @@ ("[" :> 91) @@ ("]" :> 93) @@
  ("\"" :> 34) @@ (":" :> 58) @@ ("," :> 44) @@ ("=" :> 61) @@
  ("-" :> 45) @@ (" " :> 32) @@ ("nl" :> 10) @@
  ("0" :> 48) @@ ("1" :> 49) @@ ("7" :> 55) @@
  ("a" :> 97) @@ ("b" :> 98) @@ ("e" :> 101) @@ ("f" :> 102) @@
  ("j" :> 106) @@ ("l" :> 108) @@ ("n" :> 110) @@ ("o" :> 111) @@
  ("r" :> 114) @@ ("s" :> 115) @@ ("t" :> 116) @@ ("u" :> 117) @@
  ("\\" :> 92)

\* The bytes of a text written as a tuple of one-character strings.
B(t) == [i \in 1..Len(t) |-> Code[t[i]]]

BSeq(S, n) == UNION {[1..k -> S] : k \in 0..n}

----------------------------------------------------------------------------
(* Results and errors (FlyIoError) *)

Ok(v) == [ok |-> TRUE, kind |-> "Ok", val |-> v]

CommandError(e) == [ok |-> FALSE, kind |-> "CommandError", val |-> e]
SecretNotFound(n) == [ok |-> FALSE, kind |-> "SecretNotFound", val |-> n]
SecretNotSet(n) == [ok |-> FALSE, kind |-> "SecretNotSet", val |-> n]
SecretNotDeleted(n) == [ok |-> FALSE, kind |-> "SecretNotDeleted", val |-> n]
Utf8Error(e) == [ok |-> FALSE, kind |-> "Utf8Error", val |-> e]

FlyIoError == {"CommandError", "SecretNotFound", "SecretNotSet",
               "SecretNotDeleted", "Utf8Error"}

\* Equality of two results; the payloads are compared only for equal kinds.
SameResult(r1, r2) == r1.kind = r2.kind /\ r1.val = r2.val

Unit == <<>>

----------------------------------------------------------------------------
(* str::from_utf8 *)

Utf8Width(b) ==
  IF b < 128 THEN 1
  ELSE IF b >= 194 /\ b <= 223 THEN 2
  ELSE IF b >= 224 /\ b <= 239 THEN 3
  ELSE IF b >= 240 /\ b <= 244 THEN 4
  ELSE 0

Utf8Second(lead, b) ==
  CASE lead = 224 -> b >= 160 /\ b <= 191
    [] lead = 237 -> b >= 128 /\ b <= 159
    [] lead = 240 -> b >= 144 /\ b <= 191
    [] lead = 244 -> b >= 128 /\ b <= 143
    [] OTHER -> b >= 128 /\ b <= 191

Utf8Cont(b) == b >= 128 /\ b <= 191

\* The number of leading bytes of s, counted from position i, that form
\* complete valid UTF-8 sequences (Utf8Error::valid_up_to).
RECURSIVE ValidUpTo(_, _)
ValidUpTo(s, i) ==
  IF i > Len(s) THEN Len(s)
  ELSE LET w == Utf8Width(s[i]) IN
       IF w = 0 \/ i + w - 1 > Len(s) THEN i - 1
       ELSE IF w >= 2 /\ ~Utf8Second(s[i], s[i + 1]) THEN i - 1
       ELSE IF w >= 3 /\ ~Utf8Cont(s[i + 2]) THEN i - 1
       ELSE IF w >= 4 /\ ~Utf8Cont(s[i + 3]) THEN i - 1
       ELSE ValidUpTo(s, i + w)

from_utf8(bytes) ==
  LET n == ValidUpTo(bytes, 1) IN
  IF n = Len(bytes) THEN [ok |-> TRUE, val |-> bytes]
  ELSE [ok |-> FALSE, val |-> n]

----------------------------------------------------------------------------
(* serde_json::Value and serde_json::from_str *)

JNull == [t |-> "null", v |-> <<>>]
JBool(b) == [t |-> "bool", v |-> b]
JNum(digits) == [t |-> "num", v |-> digits]
JStr(s) == [t |-> "str", v |-> s]
JArr(a) == [t |-> "arr", v |-> a]
JObj(m) == [t |-> "obj", v |-> m]

Whitespace == {Code[" "], Code["nl"], 9, 13}
Digits == 48..57

Fail == [ok |-> FALSE, v |-> JNull, i |-> 0]
Done(v, i) == [ok |-> TRUE, v |-> v, i |-> i]

RECURSIVE SkipWs(_, _)
SkipWs(s, i) ==
  IF i <= Len(s) /\ s[i] \in Whitespace THEN SkipWs(s, i + 1) ELSE i

\* Position of the quote that closes the string whose content starts at i;
\* 0 when there is none.  Control bytes are rejected; escape sequences are
\* rejected too (no modelled output contains a backslash).
RECURSIVE ScanString(_, _)
ScanString(s, i) ==
  IF i > Len(s) THEN 0
  ELSE IF s[i] = Code["\""] THEN i
  ELSE IF s[i] < 32 \/ s[i] = Code["\\"] THEN 0
  ELSE ScanString(s, i + 1)

ParseString(s, i) ==
  LET j == ScanString(s, i + 1) IN
  IF j = 0 THEN Fail ELSE Done(JStr(SubSeq(s, i + 1, j - 1)), j + 1)

RECURSIVE ScanDigits(_, _)
ScanDigits(s, i) ==
  IF i <= Len(s) /\ s[i] \in Digits THEN ScanDigits(s, i + 1) ELSE i

\* Integers only: "-"? ("0" | [1-9][0-9]*).
ParseNumber(s, i) ==
  LET d == IF s[i] = Code["-"] THEN i + 1 ELSE i
      e == ScanDigits(s, d)
  IN  IF e = d THEN Fail
      ELSE IF s[d] = Code["0"] /\ e > d + 1 THEN Fail
      ELSE Done(JNum(SubSeq(s, i, e - 1)), e)

StartsWith(s, i, lit) ==
  /\ i + Len(lit) - 1 <= Len(s)
  /\ SubSeq(s, i, i + Len(lit) - 1) = lit

ParseLiteral(s, i) ==
  IF StartsWith(s, i, B(<<"t", "r", "u", "e">>)) THEN Done(JBool(TRUE), i + 4)
  ELSE IF StartsWith(s, i, B(<<"f", "a", "l", "s", "e">>))
       THEN Done(JBool(FALSE), i + 5)
  ELSE IF StartsWith(s, i, B(<<"n", "u", "l", "l">>)) THEN Done(JNull, i + 4)
  ELSE Fail

RECURSIVE ParseValue(_, _)
RECURSIVE ParseElements(_, _, _)
RECURSIVE ParseMembers(_, _, _)

ParseValue(s, i0) ==
  LET i == SkipWs(s, i0) IN
  IF i > Len(s) THEN Fail
  ELSE IF s[i] = Code["\""] THEN ParseString(s, i)
  ELSE IF s[i] = Code["{"]
       THEN LET j == SkipWs(s, i + 1) IN
            IF j <= Len(s) /\ s[j] = Code["}"] THEN Done(JObj(<<>>), j + 1)
            ELSE ParseMembers(s, j, <<>>)
  ELSE IF s[i] = Code["["]
       THEN LET j == SkipWs(s, i + 1) IN
            IF j <= Len(s) /\ s[j] = Code["]"] THEN Done(JArr(<<>>), j + 1)
            ELSE ParseElements(s, j, <<>>)
  ELSE IF s[i] \in Digits \cup {Code["-"]} THEN ParseNumber(s, i)
  ELSE ParseLiteral(s, i)

ParseElements(s, i, acc) ==
  LET r == ParseValue(s, i) IN
  IF ~r.ok THEN Fail
  ELSE LET j == SkipWs(s, r.i) IN
       IF j > Len(s) THEN Fail
       ELSE IF s[j] = Code[","] THEN ParseElements(s, j + 1, Append(acc, r.v))
       ELSE IF s[j] = Code["]"] THEN Done(JArr(Append(acc, r.v)), j + 1)
       ELSE Fail

ParseMembers(s, i0, acc) ==
  LET i == SkipWs(s, i0) IN
  IF i > Len(s) \/ s[i] # Code["\""] THEN Fail
  ELSE LET k == ParseString(s, i) IN
       IF ~k.ok THEN Fail
       ELSE LET c == SkipWs(s, k.i) IN
            IF c > Len(s) \/ s[c] # Code[":"] THEN Fail
            ELSE LET r == ParseValue(s, c + 1) IN
                 IF ~r.ok THEN Fail
                 ELSE LET j == SkipWs(s, r.i)
                          m == Append(acc, [k |-> k.v.v, v |-> r.v])
                      IN  IF j > Len(s) THEN Fail
                          ELSE IF s[j] = Code[","] THEN ParseMembers(s, j + 1, m)
                          ELSE IF s[j] = Code["}"] THEN Done(JObj(m), j + 1)
                          ELSE Fail

from_str(s) ==
  LET r == ParseValue(s, 1) IN
  IF r.ok /\ SkipWs(s, r.i) = Len(s) + 1 THEN [ok |-> TRUE, v |-> r.v]
  ELSE [ok |-> FALSE, v |-> JNull]

\* Value::get(&str): Some(member) for an object that has the key (the last
\* occurrence wins, as in a map), None for everything else.
RECURSIVE LastMember(_, _, _)
LastMember(m, key, i) ==
  IF i = 0 THEN [some |-> FALSE, v |-> JNull]
  ELSE IF m[i].k = key THEN [some |-> TRUE, v |-> m[i].v]
  ELSE LastMember(m, key, i - 1)

ValueGet(json, key) ==
  IF json.t = "obj" THEN LastMember(json.v, key, Len(json.v))
  ELSE [some |-> FALSE, v |-> JNull]

\* Value::as_str().unwrap_or_default()
as_str_or_default(json) == IF json.t = "str" THEN json.v ELSE <<>>

----------------------------------------------------------------------------
(* The external `fly` tool.  The provider only sees a process outcome:    *)
(* whether the process could be spawned, its exit status and its standard  *)
(* output.  The tool is either a key-value store of secrets (mode "kv":    *)
(* `secrets set` splits its argument at the first '=', `secrets unset`     *)
(* removes a key, `secrets list --json` prints the map as a JSON object)   *)
(* or an arbitrary process (it cannot be spawned, exits non-zero, or exits *)
(* successfully with any output).                                          *)

Eq == Code["="]

RECURSIVE IndexOf(_, _, _)
IndexOf(s, b, i) ==
  IF i > Len(s) THEN 0 ELSE IF s[i] = b THEN i ELSE IndexOf(s, b, i + 1)

RECURSIVE KeyIndex(_, _, _)
KeyIndex(st, key, i) ==
  IF i > Len(st) THEN 0 ELSE IF st[i].k = key THEN i ELSE KeyIndex(st, key, i + 1)

HasKey(st, key) == KeyIndex(st, key, 1) # 0
Lookup(st, key) == st[KeyIndex(st, key, 1)].v
Keys(st) == {st[i].k : i \in 1..Len(st)}

KvSet(st, arg) ==
  LET p == IndexOf(arg, Eq, 1)
      key == SubSeq(arg, 1, p - 1)
      val == SubSeq(arg, p + 1, Len(arg))
      at == KeyIndex(st, key, 1)
  IN  IF p = 0 THEN st
      ELSE IF at = 0 THEN Append(st, [k |-> key, v |-> val])
      ELSE [st EXCEPT ![at] = [k |-> key, v |-> val]]

KvUnset(st, key) ==
  LET at == KeyIndex(st, key, 1) IN
  IF at = 0 THEN st
  ELSE SubSeq(st, 1, at - 1) \o SubSeq(st, at + 1, Len(st))

Quoted(s) == <<Code["\""]>> \o s \o <<Code["\""]>>

RECURSIVE KvMembers(_, _)
KvMembers(st, i) ==
  IF i > Len(st) THEN <<>>
  ELSE (IF i > 1 THEN <<Code[","]>> ELSE <<>>)
       \o Quoted(st[i].k) \o <<Code[":"]>> \o Quoted(st[i].v)
       \o KvMembers(st, i + 1)

KvList(st) == <<Code["{"]>> \o KvMembers(st, 1) \o <<Code["}"], Code["nl"]>>

\* The store after the tool has run the command args.
StoreAfter(fly, args, st) ==
  IF fly.mode # "kv" THEN st
  ELSE IF args[2] = "set" THEN KvSet(st, args[3])
  ELSE IF args[2] = "unset" THEN KvUnset(st, args[3])
  ELSE st

\* std::process::Output (or the spawn error) of running the command args.
Output(fly, args) ==
  CASE fly.mode = "spawn_failed" ->
         [spawned |-> FALSE, success |-> FALSE, stdout |-> <<>>]
    [] fly.mode = "exit_failure" ->
         [spawned |-> TRUE, success |-> FALSE, stdout |-> fly.stdout]
    [] fly.mode = "exit_success" ->
         [spawned |-> TRUE, success |-> TRUE, stdout |-> fly.stdout]
    [] fly.mode = "kv" ->
         IF args[2] = "list"
         THEN [spawned |-> TRUE, success |-> TRUE, stdout |-> KvList(fly.store)]
         ELSE IF args[2] = "set" /\ IndexOf(args[3], Eq, 1) = 0
         THEN [spawned |-> TRUE, success |-> FALSE, stdout |-> <<>>]
         ELSE [spawned |-> TRUE, success |-> TRUE, stdout |-> fly.stdout]

----------------------------------------------------------------------------
(* FlyIoProvider *)

\* The io::Error of a process that could not be spawned, and the one the
\* provider makes up for a non-zero exit status.
SpawnError == "NotFound: fly"
ExitError == "Other: fly command failed"

\* Variant: the output is decoded before the exit status is looked at.
execute_fly_command_output_first(args, fly) ==
  LET output == Output(fly, args) IN
  IF ~output.spawned THEN CommandError(SpawnError)
  ELSE LET output_str == from_utf8(output.stdout) IN
       IF ~output_str.ok THEN Utf8Error(output_str.val)
       ELSE IF ~output.success THEN CommandError(ExitError)
       ELSE Ok(output_str.val)

\* Variant: the exit status is not looked at.
execute_fly_command_unchecked(args, fly) ==
  LET output == Output(fly, args) IN
  IF ~output.spawned THEN CommandError(SpawnError)
  ELSE LET output_str == from_utf8(output.stdout) IN
       IF output_str.ok THEN Ok(output_str.val) ELSE Utf8Error(output_str.val)

execute_fly_command(args, fly) ==
  LET output == Output(fly, args) IN
  IF ~output.spawned THEN CommandError(SpawnError)
  ELSE IF ~output.success THEN CommandError(ExitError)
  ELSE LET output_str == from_utf8(output.stdout) IN
       IF output_str.ok THEN Ok(output_str.val) ELSE Utf8Error(output_str.val)

\* Variant: the two sides of '=' are swapped.
format_swapped(secret_name, secret_value) ==
  secret_value \o <<Eq>> \o secret_name

format(secret_name, secret_value) == secret_name \o <<Eq>> \o secret_value

\* Variant: a missing key is defaulted like a value that is not a string.
get_default(secret_name, fly) ==
  LET args == <<"secrets", "list", B(<<"-", "-", "j", "s", "o", "n">>)>>
      output == execute_fly_command(args, fly)
      secrets == from_str(output.val)
      secret_value == ValueGet(secrets.v, secret_name)
  IN  [issued |-> <<args>>,
       exec |-> output,
       result |->
         IF ~output.ok THEN output
         ELSE IF ~secrets.ok THEN SecretNotFound(secret_name)
         ELSE Ok(as_str_or_default(secret_value.v))]

\* Variant: a failed command is reported as a missing secret.
get_masking(secret_name, fly) ==
  LET args == <<"secrets", "list", B(<<"-", "-", "j", "s", "o", "n">>)>>
      output == execute_fly_command(args, fly)
      secrets == from_str(output.val)
      secret_value == ValueGet(secrets.v, secret_name)
  IN  [issued |-> <<args>>,
       exec |-> output,
       result |->
         IF ~output.ok THEN SecretNotFound(secret_name)
         ELSE IF ~secrets.ok THEN SecretNotFound(secret_name)
         ELSE IF secret_value.some THEN Ok(as_str_or_default(secret_value.v))
         ELSE SecretNotFound(secret_name)]

get(secret_name, fly) ==
  LET args == <<"secrets", "list", B(<<"-", "-", "j", "s", "o", "n">>)>>
      output == execute_fly_command(args, fly)
      secrets == from_str(output.val)
      secret_value == ValueGet(secrets.v, secret_name)
  IN  [issued |-> <<args>>,
       exec |-> output,
       result |->
         IF ~output.ok THEN output
         ELSE IF ~secrets.ok THEN SecretNotFound(secret_name)
         ELSE IF secret_value.some THEN Ok(as_str_or_default(secret_value.v))
         ELSE SecretNotFound(secret_name)]

\* Variant: a failed command is run a second time.
put_retry(secret_name, secret_value, fly) ==
  LET args == <<"secrets", "set", format(secret_name, secret_value)>>
      first == execute_fly_command(args, fly)
      result_ == execute_fly_command(args, fly)
  IN  [issued |-> IF first.ok THEN <<args>> ELSE <<args, args>>,
       exec |-> result_,
       result |-> IF result_.ok THEN Ok(Unit) ELSE SecretNotSet(secret_name)]

\* Variant: the error of the command is passed on, as in get.
put_propagating(secret_name, secret_value, fly) ==
  LET args == <<"secrets", "set", format(secret_name, secret_value)>>
      result_ == execute_fly_command(args, fly)
  IN  [issued |-> <<args>>,
       exec |-> result_,
       result |-> IF result_.ok THEN Ok(Unit) ELSE result_]

put(secret_name, secret_value, fly) ==
  LET args == <<"secrets", "set", format(secret_name, secret_value)>>
      result_ == execute_fly_command(args, fly)
  IN  [issued |-> <<args>>,
       exec |-> result_,
       result |-> IF result_.ok THEN Ok(Unit) ELSE SecretNotSet(secret_name)]

delete(secret_name, fly) ==
  LET args == <<"secrets", "unset", secret_name>>
      result_ == execute_fly_command(args, fly)
  IN  [issued |-> <<args>>,
       exec |-> result_,
       result |-> IF result_.ok THEN Ok(Unit) ELSE SecretNotDeleted(secret_name)]

----------------------------------------------------------------------------
(* Inputs *)

\* Names are over a letter and '='; values are runs of '=' and one ordinary
\* value.
Names == BSeq({Code["a"], Eq}, MaxLen)
Values == BSeq({Eq}, MaxLen) \cup {B(<<"b">>)}

\* What a process may write besides a secret listing.
Noise == {<<>>, <<255>>}

\* Standard output of `secrets list --json` of an arbitrary tool.
Listings ==
  { B(<<"{", "\"", "a", "\"", ":", "\"", "b", "\"", "}">>),
    B(<<"{", " ", "\"", "a", "\"", " ", ":", " ", "\"", "b", "\"", " ", "}", "nl">>),
    B(<<"{", "\"", "a", "\"", ":", "1", "7", "}">>),
    B(<<"{", "\"", "a", "\"", ":", "t", "r", "u", "e", "}">>),
    B(<<"{", "\"", "a", "\"", ":", "n", "u", "l", "l", "}">>),
    B(<<"{", "\"", "a", "\"", ":", "{", "\"", "a", "\"", ":", "\"", "b", "\"", "}", "}">>),
    B(<<"{", "\"", "a", "\"", ":", "[", "\"", "b", "\"", "]", "}">>),
    B(<<"{", "\"", "a", "\"", ":", "\"", "b", "\"", ",", "\"", "a", "\"", ":", "\"", "e", "\"", "}">>),
    B(<<"{", "\"", "a", "=", "\"", ":", "\"", "b", "\"", ",", "\"", "\"", ":", "\"", "e", "\"", "}">>),
    B(<<"{", "}">>),
    B(<<"[", "\"", "a", "\"", "]">>),
    B(<<"\"", "a", "\"">>),
    B(<<"a">>),
    B(<<"{", "\"", "a", "\"", ":", "\"", "b", "\"">>),
    <<>>,
    <<34, 195, 169, 34>>,
    <<123, 34, 97, 34, 58, 34, 195, 34, 125>>,
    <<255>> }

Fly(mode, stdout, st) == [mode |-> mode, stdout |-> stdout, store |-> st]

Failures(st) ==
  {Fly("spawn_failed", <<>>, st)} \cup {Fly("exit_failure", o, st) : o \in Noise}

GetEnvs(st) ==
  Failures(st) \cup {Fly("kv", <<>>, st)}
  \cup {Fly("exit_success", o, st) : o \in Listings}

PutEnvs(st) == Failures(st) \cup {Fly("kv", o, st) : o \in Noise}

----------------------------------------------------------------------------
(* State machine: a caller makes one provider call after another. *)

NoCall == [op |-> "none", name |-> <<>>, value |-> <<>>]

Init ==
  /\ store = <<>>
  /\ calls = 0
  /\ invocations = 0
  /\ call = NoCall
  /\ issued = <<>>
  /\ proc = [mode |-> "none", spawned |-> FALSE, success |-> FALSE, stdout |-> <<>>]
  /\ exec = Ok(Unit)
  /\ result = Ok(Unit)

RECURSIVE RunAll(_, _, _, _)
RunAll(fly, cmds, i, st) ==
  IF i > Len(cmds) THEN st
  ELSE RunAll(fly, cmds, i + 1, StoreAfter(fly, cmds[i], st))

\* The effect of one provider call h made against the tool fly.
Return(c, h, fly) ==
  /\ calls' = calls + 1
  /\ call' = c
  /\ issued' = h.issued
  /\ invocations' = invocations + Len(h.issued)
  /\ store' = RunAll(fly, h.issued, 1, store)
  /\ proc' = [mode |-> fly.mode] @@ Output(fly, h.issued[Len(h.issued)])
  /\ exec' = h.exec
  /\ result' = h.result

Get ==
  /\ calls < MaxCalls
  /\ \E n \in Names, fly \in GetEnvs(store) :
       Return([op |-> "get", name |-> n, value |-> <<>>], get(n, fly), fly)

Put ==
  /\ calls < MaxCalls
  /\ \E n \in Names, v \in Values, fly \in PutEnvs(store) :
       Return([op |-> "put", name |-> n, value |-> v], put(n, v, fly), fly)

Delete ==
  /\ calls < MaxCalls
  /\ \E n \in Names, fly \in PutEnvs(store) :
       Return([op |-> "delete", name |-> n, value |-> <<>>], delete(n, fly), fly)

Next == Get \/ Put \/ Delete

Spec == Init /\ [][Next]_vars

----------------------------------------------------------------------------
(* Properties *)

Called(op) == call.op = op
CommandFailed == ~proc.spawned \/ ~proc.success
CommandKinds == {"CommandError", "Utf8Error"}

\* The JSON document on standard output and whether it lists the key.
Listing == from_str(proc.stdout)
Lists(key) ==
  /\ Listing.ok
  /\ Listing.v.t = "obj"
  /\ \E i \in 1..Len(Listing.v.v) : Listing.v.v[i].k = key
Listed(key) ==
  LET m == Listing.v.v
      i == CHOOSE j \in 1..Len(m) :
             m[j].k = key /\ \A l \in (j + 1)..Len(m) : m[l].k # key
  IN  m[i].v

\* The JSON text of a value; for a string, its content.
RECURSIVE Render(_)
RECURSIVE RenderAll(_, _, _)
RenderAll(items, i, isObj) ==
  IF i > Len(items) THEN <<>>
  ELSE (IF i > 1 THEN <<Code[","]>> ELSE <<>>)
       \o (IF isObj
           THEN Quoted(items[i].k) \o <<Code[":"]>>
                \o (IF items[i].v.t = "str" THEN Quoted(items[i].v.v)
                    ELSE Render(items[i].v))
           ELSE IF items[i].t = "str" THEN Quoted(items[i].v)
           ELSE Render(items[i]))
       \o RenderAll(items, i + 1, isObj)
Render(json) ==
  CASE json.t = "str" -> json.v
    [] json.t = "num" -> json.v
    [] json.t = "bool" ->
         IF json.v THEN B(<<"t", "r", "u", "e">>)
         ELSE B(<<"f", "a", "l", "s", "e">>)
    [] json.t = "null" -> B(<<"n", "u", "l", "l">>)
    [] json.t = "arr" ->
         <<Code["["]>> \o RenderAll(json.v, 1, FALSE) \o <<Code["]"]>>
    [] json.t = "obj" ->
         <<Code["{"]>> \o RenderAll(json.v, 1, TRUE) \o <<Code["}"]>>

\* C1 (as stated): every error returned by get, put or delete is a
\* command-execution failure, a secret-not-found or a value-decoding failure.
C1_ThreeKinds ==
  ~result.ok => result.kind \in {"CommandError", "SecretNotFound", "Utf8Error"}

\* C1 (amended): every error returned is one of the five kinds of FlyIoError;
\* get returns only CommandError, SecretNotFound or Utf8Error, put returns
\* only SecretNotSet and delete returns only SecretNotDeleted.
C1_ErrorKinds ==
  ~result.ok =>
    /\ result.kind \in FlyIoError
    /\ Called("get") =>
         result.kind \in {"CommandError", "SecretNotFound", "Utf8Error"}
    /\ Called("put") => result.kind = "SecretNotSet"
    /\ Called("delete") => result.kind = "SecretNotDeleted"

C1_Witness ==
  /\ Called("put") /\ result.kind = "SecretNotSet"
  /\ exec.kind = "Utf8Error"

\* C2 (as stated): whenever the external command of get, put or delete fails
\* with an error e, the operation returns that same error e.
C2_Surfaced ==
  (call.op # "none" /\ ~exec.ok) => SameResult(result, exec)

\* C2 (amended): get returns the error e of its failed command unchanged;
\* put and delete replace it by SecretNotSet(name) and SecretNotDeleted(name).
C2_GetSurfaces ==
  ~exec.ok =>
    /\ exec.kind \in CommandKinds
    /\ Called("get") => SameResult(result, exec)
    /\ Called("put") => SameResult(result, SecretNotSet(call.name))
    /\ Called("delete") => SameResult(result, SecretNotDeleted(call.name))

C2_Witness ==
  /\ Called("get") /\ exec.kind = "Utf8Error" /\ result.kind = "Utf8Error"
  /\ result.val = exec.val

\* C3: every call issues the fly command exactly once, whether it succeeds
\* or fails, and the number of command invocations equals the number of calls.
C3_NoRetry ==
  /\ invocations = calls
  /\ call.op # "none" => Len(issued) = 1

C3_Witness ==
  /\ calls >= 2 /\ invocations = calls
  /\ Called("put") /\ ~exec.ok /\ ~result.ok

\* C4: get issues only [secrets, list, --json], put(name, value) only
\* [secrets, set, name=value] and delete(name) only [secrets, unset, name];
\* a get leaves the store of the tool unchanged, and a delete changes no key
\* other than name.
C4_Step ==
  calls' # calls =>
    /\ Len(issued') = 1
    /\ Len(issued'[1]) = 3
    /\ issued'[1][1] = "secrets"
    /\ call'.op = "get" =>
         /\ issued'[1][2] = "list"
         /\ issued'[1][3] = <<45, 45, 106, 115, 111, 110>>
         /\ store' = store
    /\ call'.op = "put" =>
         /\ issued'[1][2] = "set"
         /\ issued'[1][3] = call'.name \o <<61>> \o call'.value
    /\ call'.op = "delete" =>
         /\ issued'[1][2] = "unset"
         /\ issued'[1][3] = call'.name
         /\ \A i \in 1..Len(store) :
              store[i].k # call'.name =>
                /\ HasKey(store', store[i].k)
                /\ Lookup(store', store[i].k) = store[i].v
         /\ Keys(store') \subseteq Keys(store)
C4_FixedCommands == [][C4_Step]_vars

C4_Witness ==
  /\ Called("put") /\ Len(call.name) > 0 /\ Len(call.value) > 0
  /\ issued[1][2] = "set" /\ result.ok
  /\ Len(store) > 0

\* C5: when the list command succeeds with UTF-8 output that does not have
\* name as a key of a JSON object (the key is missing, the output is an array
\* or a scalar, or it is not JSON), get(name) returns SecretNotFound(name);
\* get never returns Ok for a name that is not listed.
C5_NotFound ==
  (Called("get") /\ exec.ok) =>
    /\ ~Lists(call.name) => SameResult(result, SecretNotFound(call.name))
    /\ result.ok => Lists(call.name)

C5_Witness ==
  /\ Called("get") /\ exec.ok /\ Listing.ok /\ Listing.v.t = "obj"
  /\ Len(Listing.v.v) > 0 /\ ~Lists(call.name)
  /\ result.kind = "SecretNotFound"

C7_ListedValue ==
  (Called("get") /\ exec.ok /\ Lists(call.name)) =>
    /\ result.ok
    /\ result.val = Render(Listed(call.name))

\* C8: put returns Ok(()) exactly when the set command exited successfully
\* and SecretNotSet(name) otherwise; delete returns Ok(()) exactly when the
\* unset command exited successfully and SecretNotDeleted(name) otherwise.
C8_Faithful ==
  /\ Called("put") =>
       /\ result.ok <=> (proc.spawned /\ proc.success)
       /\ ~result.ok => SameResult(result, SecretNotSet(call.name))
  /\ Called("delete") =>
       /\ result.ok <=> (proc.spawned /\ proc.success)
       /\ ~result.ok => SameResult(result, SecretNotDeleted(call.name))

\* C9: execute_fly_command looks at the exit status before the output: a
\* command that could not be spawned or exited non-zero yields CommandError
\* whatever is on standard output, Utf8Error is produced only for a
\* successful exit with output that is not UTF-8, and Ok only for a successful
\* exit with UTF-8 output, which is returned unchanged.
C9_StatusFirst ==
  call.op # "none" =>
    /\ CommandFailed => exec.kind = "CommandError"
    /\ exec.kind = "Utf8Error" =>
         proc.spawned /\ proc.success /\ ~from_utf8(proc.stdout).ok
    /\ exec.ok =>
         /\ proc.spawned /\ proc.success /\ from_utf8(proc.stdout).ok
         /\ exec.val = proc.stdout
    /\ exec.kind \in {"Ok", "CommandError", "Utf8Error"}

C9_Witness ==
  /\ proc.spawned /\ ~proc.success /\ ~from_utf8(proc.stdout).ok
  /\ exec.kind = "CommandError"

\* C10: against the key-value tool, after put(name, value) returns Ok,
\* get(name) returns Ok(value), and no key other than name has been created
\* or changed.
C10_Step ==
  (calls' # calls /\ call'.op = "put" /\ proc'.mode = "kv" /\ result'.ok) =>
    LET g == get(call'.name, Fly("kv", <<>>, store')).result IN
    /\ g.ok
    /\ g.val = call'.value
    /\ \A k \in Keys(store') \ {call'.name} :
         HasKey(store, k) /\ Lookup(store, k) = Lookup(store', k)
C10_RoundTrip == [][C10_Step]_vars

====
